---- MODULE Spec2Model ----
(***************************************************************************)
(* Model of pwncollege_cli: the PwnCollegeCLI session client (nonce,       *)
(* login, cookies, logout, docker, attempt, status, dojos, modules,        *)
(* challenges) and main().                                                 *)
(*                                                                         *)
(* The server is not part of the program: every HTTP response is an input  *)
(* drawn from a bounded set.  A response body is a sequence of tokens.     *)
(* The tokens are the pieces of text the code's two regular expressions    *)
(* distinguish; a token that stands for a literal of several characters    *)
(* (KEY, UID) cannot overlap itself, so matching on tokens is matching on  *)
(* characters.                                                             *)
(***************************************************************************)
EXTENDS Integers, Sequences, FiniteSets, TLC

\* ------------------------------------------------------------------ bounds
\* Longest body of a GET base-URL response in Spec and SpecMain.
MaxBody == 4
\* Longest body of a GET base-URL response in SpecNonce.
MaxNonceBody == 7
\* Longest body of a POST /login response.
MaxLoginBody == 3
\* Most cards (anchors, header/body pairs) on a scraped page.
MaxCards == 1
\* Most anchors on a page handed to _parse_dojos or _parse_modules directly.
MaxAnchors == 2

\* --------------------------------------------------------------- constants
None == "None"
PWNCOLLEGE_CLI_BASE_URL == "https://pwn.college"
PWNCOLLEGE_CLI_USER_AGENT == "pwncollege_cli/0.0.1"

\* Tokens of a base-URL body: KEY is the literal  'csrfNonce':<space>  ,
\* QUOTE is one double quote, "a" is any other character.
KEY == "'csrfNonce': "
QUOTE == "\""
NonceAlphabet == {KEY, QUOTE, "a"}

\* Tokens of a POST /login body: UID is the literal  'userId':<space>  ,
\* "0" and "1" are digits; UID also serves as the non-digit text around them.
UID == "'userId': "
Digits == {"0", "1"}
LoginAlphabet == {UID, "0", "1"}

SeqsUpTo(S, n) == UNION {[1..k -> S] : k \in 0..n}

\* ------------------------------------------------------------ re / Python
\* What re.search returns: no match, or a match with its named group.
NoMatch == [matched |-> FALSE, group |-> <<>>]
Match(g) == [matched |-> TRUE, group |-> g]

\* End of the greedy run [^"]+ (or [^"]*) that starts at i: the first index
\* at or after i that holds a QUOTE, or Len(body)+1.
RECURSIVE RunEnd(_, _)
RunEnd(body, i) ==
    IF i > Len(body) \/ body[i] = QUOTE THEN i ELSE RunEnd(body, i + 1)

\* Mutant of SearchNonce: [^"]* for [^"]+, so an empty value matches too.
RECURSIVE SearchNonceEmptyOk(_, _)
SearchNonceEmptyOk(body, i) ==
    IF i + 2 > Len(body) THEN NoMatch
    ELSE IF /\ body[i] = KEY
            /\ body[i + 1] = QUOTE
            /\ RunEnd(body, i + 2) <= Len(body)
         THEN Match(SubSeq(body, i + 2, RunEnd(body, i + 2) - 1))
         ELSE SearchNonceEmptyOk(body, i + 1)

\* re.search(r"'csrfNonce': \"(?P<nonce>[^\"]+)\"", text), tried from
\* position i on: the leftmost match, or no match.
RECURSIVE SearchNonce(_, _)
SearchNonce(body, i) ==
    IF i + 3 > Len(body) THEN NoMatch
    ELSE IF /\ body[i] = KEY
            /\ body[i + 1] = QUOTE
            /\ RunEnd(body, i + 2) > i + 2
            /\ RunEnd(body, i + 2) <= Len(body)
         THEN Match(SubSeq(body, i + 2, RunEnd(body, i + 2) - 1))
         ELSE SearchNonce(body, i + 1)

\* End of the greedy run [0-9]+ that starts at i.
RECURSIVE DigitsEnd(_, _)
DigitsEnd(body, i) ==
    IF i > Len(body) \/ body[i] \notin Digits THEN i ELSE DigitsEnd(body, i + 1)

\* re.search(r"'userId': (?P<user_id>[0-9]+)", text), tried from position i
\* on: the leftmost match (its group a str of digits), or no match.
RECURSIVE SearchUserId(_, _)
SearchUserId(body, i) ==
    IF i + 1 > Len(body) THEN NoMatch
    ELSE IF body[i] = UID /\ DigitsEnd(body, i + 1) > i + 1
         THEN Match(SubSeq(body, i + 1, DigitsEnd(body, i + 1) - 1))
         ELSE SearchUserId(body, i + 1)

\* Python values that meet in a comparison carry their type.
PyStr(s) == [type |-> "str", val |-> s]
PyInt(n) == [type |-> "int", val |-> n]

\* Python's x != y: values of different types (a str and an int) are unequal.
PyNe(x, y) == x.type # y.type \/ x.val # y.val


\* ------------------------------------------- what a response body contains
\* (read off the text itself, independently of how the code searches it)

\* The occurrences  'csrfNonce': "..."  in a body: <<i, j>> where i holds KEY,
\* i+1 the opening quote and j the closing quote; the value lies between.
NonceOccurrences(body) ==
    {o \in (1..Len(body)) \X (1..Len(body)) :
        /\ o[1] + 2 <= o[2]
        /\ body[o[1]] = KEY
        /\ body[o[1] + 1] = QUOTE
        /\ body[o[2]] = QUOTE
        /\ \A k \in (o[1] + 2)..(o[2] - 1) : body[k] # QUOTE}

OccurrenceValue(body, o) == SubSeq(body, o[1] + 2, o[2] - 1)

NonEmptyOccurrences(body) ==
    {o \in NonceOccurrences(body) : OccurrenceValue(body, o) # <<>>}

First(S) == CHOOSE o \in S : \A p \in S : o[1] <= p[1]

\* The value of the first occurrence whose value is not empty.
FirstNonEmptyValue(body) ==
    OccurrenceValue(body, First(NonEmptyOccurrences(body)))

\* The number a str of digits denotes.
RECURSIVE DigitsValue(_)
DigitsValue(d) ==
    IF d = <<>> THEN 0
    ELSE 10 * DigitsValue(SubSeq(d, 1, Len(d) - 1))
         + (IF d[Len(d)] = "1" THEN 1 ELSE 0)

\* The userIds in a body: <<i, j>> where i holds UID and i+1..j is the whole
\* run of digits after it.
UserIdOccurrences(body) ==
    {o \in (1..Len(body)) \X (1..Len(body)) :
        /\ o[1] < o[2]
        /\ body[o[1]] = UID
        /\ \A k \in (o[1] + 1)..o[2] : body[k] \in Digits
        /\ (o[2] = Len(body) \/ body[o[2] + 1] \notin Digits)}

\* What a response shows: the nonce and the numeric userId in its body.
NoFacts ==
    [has_nonce |-> FALSE, nonce |-> <<>>, has_user_id |-> FALSE, user_id |-> 0]

BaseFacts(body) ==
    [NoFacts EXCEPT
        !.has_nonce = NonEmptyOccurrences(body) # {},
        !.nonce = IF NonEmptyOccurrences(body) # {}
                  THEN FirstNonEmptyValue(body) ELSE <<>>]

LoginFacts(body) ==
    [NoFacts EXCEPT
        !.has_user_id = UserIdOccurrences(body) # {},
        !.user_id = IF UserIdOccurrences(body) # {}
                    THEN LET o == First(UserIdOccurrences(body))
                         IN DigitsValue(SubSeq(body, o[1] + 1, o[2]))
                    ELSE 0]


\* ------------------------------------------------------------------ inputs
\* One body for each way a body of at most n tokens is read, by the code's
\* search and by the text itself: the bodies the program cannot tell apart
\* are drawn once.
BaseReading(b) == <<SearchNonce(b, 1), BaseFacts(b)>>
LoginReading(b) == <<SearchUserId(b, 1), LoginFacts(b)>>

BaseTexts ==
    LET all == SeqsUpTo(NonceAlphabet, MaxBody)
    IN {CHOOSE b \in all : BaseReading(b) = r : r \in {BaseReading(b) : b \in all}}

LoginTexts ==
    LET all == SeqsUpTo(LoginAlphabet, MaxLoginBody)
    IN {CHOOSE b \in all : LoginReading(b) = r : r \in {LoginReading(b) : b \in all}}

\* What the responses to one call do to the cookie named session: the last
\* Set-Cookie among them that names it, a deletion (Max-Age=0) or a value;
\* "keep" when none of them names it.
SetCookies == {"keep", "delete", "FAKE-SESSION-COOKIE"}

\* The JSON an API response carries: not JSON at all, or an object with some
\* of the keys main() reads ("challenge" stands for challenge, module, dojo).
NotJson == [json |-> FALSE, keys |-> {}, success |-> FALSE]
Json(keys, success) == [json |-> TRUE, keys |-> keys, success |-> success]
Contents ==
    {NotJson, Json({}, FALSE), Json({"success"}, TRUE), Json({"success"}, FALSE),
     Json({"success", "challenge"}, TRUE), Json({"success", "error"}, FALSE)}

\* Responses, by the request they answer: the body, what the body shows
\* (facts, never read by the program) and the JSON it carries.
PlainResponses == [text : {<<>>}, facts : {NoFacts}, content : {NotJson}]
BaseResponses ==
    {[text |-> b, facts |-> BaseFacts(b), content |-> NotJson] : b \in BaseTexts}
LoginResponses ==
    {[text |-> b, facts |-> LoginFacts(b), content |-> NotJson] :
        b \in LoginTexts}
\* ApiResponses also answer GET /logout, whose response is never read.
ApiResponses == [text : {<<>>}, facts : {NoFacts}, content : Contents]

\* session.post / session.get of an API request raises instead of returning
\* (requests.exceptions.ConnectionError, Timeout, ...): no response.  Of the
\* requests of the client this is the one sent while the session headers
\* hold what the method has yet to undo.
RequestFailed ==
    [text |-> <<>>, facts |-> NoFacts, content |-> NotJson,
     exception |-> "ConnectionError"]

Usernames == {"fake-username"}
Passwords == {"fake-password"}
Challenges == {"c1"}
Dojos == {"d1"}
Modules == {"m1"}
ChallengeIds == {7}
Flags == {"flag"}

\* ------------------------------------------------------------------- state
VARIABLES
    logged_in,   \* PwnCollegeCLI.logged_in
    headers,     \* PwnCollegeCLI.session.headers
    jar,         \* the value of the cookie named session, or None
    call,        \* the method called last
    pre,         \* logged_in, headers and jar when that call began
    sent,        \* the requests that call sent, in order
    seen,        \* what the response to each of them showed
    ret,         \* what that call returned (or raised)
    text,        \* SpecNonce: the body the server answers GET base with
    html,        \* SpecParse: the anchors of the page handed to a parser
    mpc,         \* main(): where it is
    subcommand,  \* main(): args.subcommand
    mfail,       \* main(): its login failed
    mlog         \* main(): the requests sent so far, as <<method, url>>

vars ==
    <<logged_in, headers, jar, call, pre, sent, seen, ret, text, html, mpc,
      subcommand, mfail, mlog>>

mainVars == <<mpc, subcommand, mfail, mlog>>

\* ----------------------------------------------------------------- helpers
\* dict.update({k: v}) and del d[k].
Update(d, k, v) == [x \in DOMAIN d \cup {k} |-> IF x = k THEN v ELSE d[x]]
Delete(d, k) == [x \in DOMAIN d \ {k} |-> d[x]]

\* The cookie jar after the responses to a call.
Store(j, set_cookie) ==
    IF set_cookie = "keep" THEN j
    ELSE IF set_cookie = "delete" THEN None
    ELSE set_cookie

NoData == [kind |-> "none"]
Request(method, url, h, data) ==
    [method |-> method, url |-> url, headers |-> h, data |-> data]

\* Return values.
PyNone == [kind |-> "None"]
Response(q, r) ==
    [kind |-> "Response", method |-> q.method, url |-> q.url,
     facts |-> r.facts, content |-> r.content]
Raised(e) == [kind |-> "raised", exception |-> e]

Pre == [logged_in |-> logged_in, headers |-> headers, jar |-> jar]

\* ------------------------------------------------------------- construction
\* __init__, before any call.
Constructed ==
    /\ logged_in = FALSE
    /\ headers = [h \in {"User-Agent"} |-> PWNCOLLEGE_CLI_USER_AGENT]
    /\ jar = None
    /\ call = "__init__"
    /\ pre = [logged_in |-> FALSE,
              headers |-> [h \in {"User-Agent"} |-> PWNCOLLEGE_CLI_USER_AGENT],
              jar |-> None]
    /\ sent = <<>>
    /\ seen = <<>>
    /\ ret = PyNone

\* The client used directly, not through main().
NoMain ==
    /\ mpc = "lib"
    /\ subcommand = "none"
    /\ mfail = FALSE
    /\ mlog = <<>>

Init ==
    /\ Constructed
    /\ text = <<>>
    /\ html = <<>>
    /\ NoMain

\* ----------------------------------------------------------------- methods
\* Mutant of nonce_value: without a match it returns None, which the caller
\* sends as the text None.
nonce_value_none(body) ==
    LET m == SearchNonce(body, 1)
    IN IF ~m.matched THEN <<"None">> ELSE m.group

\* nonce(): the value it returns for a base-URL response with this body.
nonce_value(body) ==
    LET m == SearchNonce(body, 1)
    IN IF ~m.matched THEN <<>> ELSE m.group

\* nonce(), called on its own.
nonce(r, set_cookie) ==
    LET q == Request("GET", "", headers, NoData)
    IN /\ call' = "nonce"
       /\ pre' = Pre
       /\ sent' = <<q>>
       /\ seen' = <<r.facts>>
       /\ jar' = Store(jar, set_cookie)
       /\ ret' = [kind |-> "str", val |-> nonce_value(r.text)]
       /\ UNCHANGED <<logged_in, headers>>

\* Mutant of login_check: == for !=.
login_check_eq(user_id) == ~PyNe(PyStr(user_id), PyInt(0))

\* login(): user_id != 0 on the matched group.
login_check(user_id) == PyNe(PyStr(user_id), PyInt(0))

\* Mutant of login_logged_in: without a match logged_in is set to False.
login_logged_in_reset(m, before) ==
    IF ~m.matched THEN FALSE ELSE login_check(m.group)

\* login(): logged_in after the search for the userId; without a match the
\* method returns before the assignment.
login_logged_in(m, before) ==
    IF ~m.matched THEN before ELSE login_check(m.group)

login(username, password, r1, r2, r3, set_cookie) ==
    LET q1 == Request("GET", "/login", headers, NoData)
        q2 == Request("GET", "", headers, NoData)
        q3 == Request("POST", "/login", headers,
                      [kind |-> "form", name |-> username,
                       password |-> password, _submit |-> "Submit",
                       nonce |-> nonce_value(r2.text)])
        m == SearchUserId(r3.text, 1)
    IN /\ call' = "login"
       /\ pre' = Pre
       /\ sent' = <<q1, q2, q3>>
       /\ seen' = <<r1.facts, r2.facts, r3.facts>>
       /\ jar' = Store(jar, set_cookie)
       /\ logged_in' = login_logged_in(m, logged_in)
       /\ ret' = IF ~m.matched THEN PyNone ELSE Response(q3, r3)
       /\ UNCHANGED headers

\* Mutant of cookies: None unless logged in.
cookies_guarded ==
    /\ call' = "cookies"
    /\ pre' = Pre
    /\ sent' = <<>>
    /\ seen' = <<>>
    /\ ret' = IF jar = None \/ ~logged_in THEN PyNone
              ELSE [kind |-> "str", val |-> jar]
    /\ UNCHANGED <<logged_in, headers, jar>>

cookies ==
    /\ call' = "cookies"
    /\ pre' = Pre
    /\ sent' = <<>>
    /\ seen' = <<>>
    /\ ret' = IF jar = None THEN PyNone ELSE [kind |-> "str", val |-> jar]
    /\ UNCHANGED <<logged_in, headers, jar>>

\* Mutant of logout: logged_in is not cleared.
logout_keeps_flag(r, set_cookie) ==
    LET q == Request("GET", "/logout", headers, NoData)
    IN /\ call' = "logout"
       /\ pre' = Pre
       /\ IF ~logged_in
          THEN /\ sent' = <<>>
               /\ seen' = <<>>
               /\ ret' = PyNone
               /\ UNCHANGED jar
          ELSE /\ sent' = <<q>>
               /\ seen' = <<r.facts>>
               /\ jar' = Store(jar, set_cookie)
               /\ ret' = Response(q, r)
       /\ UNCHANGED <<logged_in, headers>>

\* Mutant of logout: no early return when not logged in.
logout_always(r, set_cookie) ==
    LET q == Request("GET", "/logout", headers, NoData)
    IN /\ call' = "logout"
       /\ pre' = Pre
       /\ sent' = <<q>>
       /\ seen' = <<r.facts>>
       /\ jar' = Store(jar, set_cookie)
       /\ logged_in' = FALSE
       /\ ret' = Response(q, r)
       /\ UNCHANGED headers

logout(r, set_cookie) ==
    LET q == Request("GET", "/logout", headers, NoData)
    IN /\ call' = "logout"
       /\ pre' = Pre
       /\ IF ~logged_in
          THEN /\ sent' = <<>>
               /\ seen' = <<>>
               /\ ret' = PyNone
               /\ UNCHANGED <<logged_in, jar>>
          ELSE /\ sent' = <<q>>
               /\ seen' = <<r.facts>>
               /\ jar' = Store(jar, set_cookie)
               /\ logged_in' = FALSE
               /\ ret' = Response(q, r)
       /\ UNCHANGED headers

\* Mutant of api: the API request is sent first, the nonce refreshed after.
api_request_first(name, method, url, data, r1, r2, set_cookie) ==
    LET q1 == Request("GET", "", headers, NoData)
        q2 == Request(method, url, headers, data)
    IN /\ call' = name
       /\ pre' = Pre
       /\ sent' = <<q2, q1>>
       /\ seen' = <<r2.facts, r1.facts>>
       /\ jar' = Store(jar, set_cookie)
       /\ ret' = Response(q2, r2)
       /\ UNCHANGED <<logged_in, headers>>

\* docker(), attempt() and status(): the nonce is put in the csrf-token
\* header, the API request is sent, the header is deleted.  When the API
\* request raises, the exception leaves the method before the del.
api(name, method, url, data, r1, r2, set_cookie) ==
    LET q1 == Request("GET", "", headers, NoData)
        h == Update(headers, "csrf-token", nonce_value(r1.text))
        q2 == Request(method, url, h, data)
    IN /\ call' = name
       /\ pre' = Pre
       /\ sent' = <<q1, q2>>
       /\ seen' = <<r1.facts, r2.facts>>
       /\ jar' = Store(jar, set_cookie)
       /\ IF r2 = RequestFailed
          THEN /\ headers' = h
               /\ ret' = Raised(r2.exception)
          ELSE /\ headers' = Delete(h, "csrf-token")
               /\ ret' = Response(q2, r2)
       /\ UNCHANGED logged_in

docker(challenge, dojo, module, practice, r1, r2, set_cookie) ==
    api("docker", "POST", "/pwncollege_api/v1/docker",
        [kind |-> "json", challenge |-> challenge, dojo |-> dojo,
         module |-> module, practice |-> practice], r1, r2, set_cookie)

attempt(challenge_id, flag, r1, r2, set_cookie) ==
    api("attempt", "POST", "/api/v1/challenges/attempt",
        [kind |-> "json", challenge_id |-> challenge_id, submission |-> flag],
        r1, r2, set_cookie)

status(r1, r2, set_cookie) ==
    api("status", "GET", "/pwncollege_api/v1/docker", NoData, r1, r2,
        set_cookie)


\* ---------------------------------------------------------------- scrapers
\* A scraped page is the sequence of its matching anchors.  An anchor lacks
\* its card-title, or its card-text, or has both; the card-text holds at most
\* one string of each kind, written <<>> (no such string) or <<n>>.
NoTitle == [card_title |-> FALSE, card_text |-> FALSE, id |-> "id",
            hacking |-> <<>>, modules |-> <<>>, challenges |-> <<>>]
NoText == [NoTitle EXCEPT !.card_title = TRUE]

DojoCards ==
    {NoTitle, NoText} \cup
    [card_title : {TRUE}, card_text : {TRUE}, id : {"id"},
     hacking : {<<>>, <<1>>}, modules : {<<>>, <<1>>, <<2>>},
     challenges : {<<>>, <<3>>}]

\* For a module, modules holds the "s / t" string: <<>> or <<s, t>>.
ModuleCards ==
    {NoTitle, NoText} \cup
    [card_title : {TRUE}, card_text : {TRUE}, id : {"id"},
     hacking : {<<>>, <<1>>}, modules : {<<>>, <<1, 2>>, <<0, 3>>},
     challenges : {<<>>}]

\* A challenges page is the sequence of its (header, body) pairs; missing
\* names the first element the parser looks for that the pair lacks.
ChallengePairs ==
    [id : {"id"},
     missing : {"none", "challenge-id", "challenge", "challenge-name",
                "embed-responsive"}]

Returned(list) == [kind |-> "list", val |-> list]

\* _parse_dojos: modules and challenges are the function's locals, <<>> while
\* unbound; they are assigned only by a card that holds the string.
RECURSIVE parse_dojos_from(_, _, _, _, _)
parse_dojos_from(page, i, modules, challenges, dojos) ==
    IF i > Len(page) THEN Returned(dojos)
    ELSE LET e == page[i]
             m == IF e.modules # <<>> THEN e.modules ELSE modules
             c == IF e.challenges # <<>> THEN e.challenges ELSE challenges
         IN IF ~e.card_title \/ ~e.card_text THEN Returned(dojos)
            ELSE IF m = <<>> \/ c = <<>> THEN Raised("UnboundLocalError")
            ELSE parse_dojos_from(page, i + 1, m, c,
                    Append(dojos,
                           [id |-> e.id, name |-> e.id,
                            hacking |-> IF e.hacking = <<>> THEN 0
                                        ELSE e.hacking[1],
                            modules |-> m[1], challenges |-> c[1]]))

_parse_dojos(page) == parse_dojos_from(page, 1, <<>>, <<>>, <<>>)

\* _parse_modules: solved_challenges and total_challenges are assigned
\* together, by a card that holds the "s / t" string.
RECURSIVE parse_modules_from(_, _, _, _)
parse_modules_from(page, i, solved_total, modules) ==
    IF i > Len(page) THEN Returned(modules)
    ELSE LET e == page[i]
             st == IF e.modules # <<>> THEN e.modules ELSE solved_total
         IN IF ~e.card_title \/ ~e.card_text THEN Returned(modules)
            ELSE IF st = <<>> THEN Raised("UnboundLocalError")
            ELSE parse_modules_from(page, i + 1, st,
                    Append(modules,
                           [id |-> e.id, name |-> e.id,
                            hacking |-> IF e.hacking = <<>> THEN 0
                                        ELSE e.hacking[1],
                            solved_challenges |-> st[1],
                            total_challenges |-> st[2]]))

_parse_modules(page) == parse_modules_from(page, 1, <<>>, <<>>)

RECURSIVE parse_challenges_from(_, _, _)
parse_challenges_from(page, i, challenges) ==
    IF i > Len(page) THEN Returned(challenges)
    ELSE IF page[i].missing # "none" THEN Raised("AssertionError")
    ELSE parse_challenges_from(page, i + 1,
            Append(challenges,
                   [id |-> page[i].id, name |-> page[i].id,
                    title |-> page[i].id, description |-> page[i].id]))

_parse_challenges(page) == parse_challenges_from(page, 1, <<>>)

\* The pages the client is given: one page of at most MaxCards cards for each
\* way the parser ends, an exception or a list of so many records.  The
\* client hands the parser's result on and keeps nothing of it.
PageReading(parsed) ==
    <<parsed.kind, IF parsed.kind = "list" THEN Len(parsed.val) ELSE 0>>

DojoPages ==
    LET all == SeqsUpTo(DojoCards, MaxCards)
    IN {CHOOSE p \in all : PageReading(_parse_dojos(p)) = r :
            r \in {PageReading(_parse_dojos(p)) : p \in all}}

ModulePages ==
    LET all == SeqsUpTo(ModuleCards, MaxCards)
    IN {CHOOSE p \in all : PageReading(_parse_modules(p)) = r :
            r \in {PageReading(_parse_modules(p)) : p \in all}}

ChallengePages ==
    LET all == SeqsUpTo(ChallengePairs, MaxCards)
    IN {CHOOSE p \in all : PageReading(_parse_challenges(p)) = r :
            r \in {PageReading(_parse_challenges(p)) : p \in all}}

\* dojos(), modules(dojo), challenges(dojo, module): one GET, then the parser.
scrape(name, url, parsed, set_cookie) ==
    /\ call' = name
    /\ pre' = Pre
    /\ sent' = <<Request("GET", url, headers, NoData)>>
    /\ seen' = <<NoFacts>>
    /\ jar' = Store(jar, set_cookie)
    /\ ret' = parsed
    /\ UNCHANGED <<logged_in, headers>>

dojos(page, set_cookie) ==
    scrape("dojos", "/dojos", _parse_dojos(page), set_cookie)

modules(dojo, page, set_cookie) ==
    scrape("modules", "/{dojo}/", _parse_modules(page), set_cookie)

challenges(dojo, module, page, set_cookie) ==
    scrape("challenges", "/{dojo}/{module}", _parse_challenges(page),
           set_cookie)

\* ------------------------------------------------ the client, used directly
Nonce ==
    /\ \E r \in BaseResponses, c \in SetCookies : nonce(r, c)
    /\ UNCHANGED <<text, html, mainVars>>

Login ==
    /\ \E u \in Usernames, p \in Passwords, r1 \in PlainResponses,
          r2 \in BaseResponses, r3 \in LoginResponses, c \in SetCookies :
            login(u, p, r1, r2, r3, c)
    /\ UNCHANGED <<text, html, mainVars>>

Cookies == cookies /\ UNCHANGED <<text, html, mainVars>>

Logout ==
    /\ \E r \in ApiResponses, c \in SetCookies : logout(r, c)
    /\ UNCHANGED <<text, html, mainVars>>

Docker ==
    /\ \E c \in Challenges, d \in Dojos, m \in Modules, practice \in BOOLEAN,
          r1 \in BaseResponses, r2 \in ApiResponses, sc \in SetCookies :
            docker(c, d, m, practice, r1, r2, sc)
    /\ UNCHANGED <<text, html, mainVars>>

Attempt ==
    /\ \E c \in ChallengeIds, f \in Flags, r1 \in BaseResponses,
          r2 \in ApiResponses, sc \in SetCookies : attempt(c, f, r1, r2, sc)
    /\ UNCHANGED <<text, html, mainVars>>

Status ==
    /\ \E r1 \in BaseResponses, r2 \in ApiResponses, sc \in SetCookies :
            status(r1, r2, sc)
    /\ UNCHANGED <<text, html, mainVars>>

DojosCall ==
    /\ \E page \in DojoPages, c \in SetCookies :
            dojos(page, c)
    /\ UNCHANGED <<text, html, mainVars>>

ModulesCall ==
    /\ \E d \in Dojos, page \in ModulePages, c \in SetCookies :
            modules(d, page, c)
    /\ UNCHANGED <<text, html, mainVars>>

ChallengesCall ==
    /\ \E d \in Dojos, m \in Modules,
          page \in ChallengePages, c \in SetCookies :
            challenges(d, m, page, c)
    /\ UNCHANGED <<text, html, mainVars>>

Next ==
    \/ Nonce
    \/ Login
    \/ Cookies
    \/ Logout
    \/ Docker
    \/ Attempt
    \/ Status
    \/ DojosCall
    \/ ModulesCall
    \/ ChallengesCall

Spec == Init /\ [][Next]_vars


\* ----------------------------- the client, with API requests that may fail
\* As Spec, and the API request of docker(), attempt() or status() may raise.
DockerFails ==
    /\ \E c \in Challenges, d \in Dojos, m \in Modules, practice \in BOOLEAN,
          r1 \in BaseResponses, sc \in SetCookies :
            docker(c, d, m, practice, r1, RequestFailed, sc)
    /\ UNCHANGED <<text, html, mainVars>>

AttemptFails ==
    /\ \E c \in ChallengeIds, f \in Flags, r1 \in BaseResponses,
          sc \in SetCookies : attempt(c, f, r1, RequestFailed, sc)
    /\ UNCHANGED <<text, html, mainVars>>

StatusFails ==
    /\ \E r1 \in BaseResponses, sc \in SetCookies :
            status(r1, RequestFailed, sc)
    /\ UNCHANGED <<text, html, mainVars>>

NextFail ==
    \/ Next
    \/ DockerFails
    \/ AttemptFails
    \/ StatusFails

SpecFail == Init /\ [][NextFail]_vars

\* ------------------------------------------------- nonce() on a given body
\* The server answers GET base with the body text; nonce() is called.
InitNonce ==
    /\ Constructed
    /\ text \in SeqsUpTo(NonceAlphabet, MaxNonceBody)
    /\ html = <<>>
    /\ NoMain

NonceOnText ==
    /\ \E c \in SetCookies :
            nonce([text |-> text, facts |-> BaseFacts(text),
                   content |-> NotJson], c)
    /\ UNCHANGED <<text, html, mainVars>>

NextNonce == NonceOnText

SpecNonce == InitNonce /\ [][NextNonce]_vars

\* ------------------------------------- the parsers on a given page
\* _parse_dojos and _parse_modules are static: each is handed a page of
\* matching anchors and returns a list or raises; the client is not touched.
InitParse ==
    /\ Constructed
    /\ text = <<>>
    /\ \/ html \in SeqsUpTo(DojoCards, MaxAnchors)
       \/ html \in SeqsUpTo(ModuleCards, MaxAnchors)
    /\ NoMain

parse(name, parsed) ==
    /\ call' = name
    /\ pre' = Pre
    /\ sent' = <<>>
    /\ seen' = <<>>
    /\ ret' = parsed
    /\ UNCHANGED <<logged_in, headers, jar>>

ParseDojos ==
    /\ \A i \in 1..Len(html) : html[i] \in DojoCards
    /\ parse("_parse_dojos", _parse_dojos(html))
    /\ UNCHANGED <<text, html, mainVars>>

ParseModules ==
    /\ \A i \in 1..Len(html) : html[i] \in ModuleCards
    /\ parse("_parse_modules", _parse_modules(html))
    /\ UNCHANGED <<text, html, mainVars>>

NextParse ==
    \/ ParseDojos
    \/ ParseModules

SpecParse == InitParse /\ [][NextParse]_vars

\* ------------------------------------------------------------------ main()
Subcommands ==
    {"docker", "attempt", "status", "dojos", "modules", "challenges",
     "cookies"}

\* <<method, url>> of each request of a call.
Urls(requests) ==
    [i \in 1..Len(requests) |-> <<requests[i].method, requests[i].url>>]

\* main() after res = pcc.status(): j = res.json(), j["success"], then
\* j['challenge'], j['module'], j['dojo'] or j['error'].  The exception this
\* raises, or "none".
status_report(content) ==
    IF ~content.json THEN "JSONDecodeError"
    ELSE IF "success" \notin content.keys THEN "KeyError"
    ELSE IF content.success
         THEN IF "challenge" \in content.keys THEN "none" ELSE "KeyError"
         ELSE IF "error" \in content.keys THEN "none" ELSE "KeyError"

\* args = argument_parser.parse_args(); pcc = PwnCollegeCLI()
InitMain ==
    /\ Constructed
    /\ text = <<>>
    /\ html = <<>>
    /\ mpc = "login"
    /\ subcommand \in Subcommands
    /\ mfail = FALSE
    /\ mlog = <<>>

\* One call of main(): the requests it sent are added to mlog.  Every request
\* of main() is answered: its API requests draw from ApiResponses.
MainCall(at, to) ==
    /\ mpc = at
    /\ mpc' = to
    /\ mlog' = mlog \o Urls(sent')
    /\ UNCHANGED <<text, html, subcommand>>

\* pcc.login(username, password); its result is not looked at.  mfail: the
\* POST /login response shows no userId other than 0.
MainLogin ==
    /\ \E u \in Usernames, p \in Passwords, r1 \in PlainResponses,
          r2 \in BaseResponses, r3 \in LoginResponses, c \in SetCookies :
            /\ login(u, p, r1, r2, r3, c)
            /\ mfail' = (~r3.facts.has_user_id \/ r3.facts.user_id = 0)
    /\ MainCall("login", "subcommand")

MainDocker ==
    /\ subcommand = "docker"
    /\ \E c \in Challenges, d \in Dojos, m \in Modules, practice \in BOOLEAN,
          r1 \in BaseResponses, r2 \in ApiResponses, sc \in SetCookies :
            docker(c, d, m, practice, r1, r2, sc)
    /\ MainCall("subcommand", "logout")
    /\ UNCHANGED mfail

MainAttempt ==
    /\ subcommand = "attempt"
    /\ \E c \in ChallengeIds, f \in Flags, r1 \in BaseResponses,
          r2 \in ApiResponses, sc \in SetCookies : attempt(c, f, r1, r2, sc)
    /\ MainCall("subcommand", "logout")
    /\ UNCHANGED mfail

MainStatus ==
    /\ subcommand = "status"
    /\ \E r1 \in BaseResponses, r2 \in ApiResponses, sc \in SetCookies :
            /\ status(r1, r2, sc)
            /\ MainCall("subcommand",
                        IF status_report(r2.content) = "none"
                        THEN "logout" ELSE "raised")
    /\ UNCHANGED mfail

\* The for loop over the parser's list only logs; an exception of the parser
\* leaves main().
MainDojos ==
    /\ subcommand = "dojos"
    /\ \E page \in DojoPages, c \in SetCookies :
            dojos(page, c)
    /\ MainCall("subcommand", IF ret'.kind = "raised" THEN "raised" ELSE "logout")
    /\ UNCHANGED mfail

MainModules ==
    /\ subcommand = "modules"
    /\ \E d \in Dojos, page \in ModulePages, c \in SetCookies :
            modules(d, page, c)
    /\ MainCall("subcommand", IF ret'.kind = "raised" THEN "raised" ELSE "logout")
    /\ UNCHANGED mfail

MainChallenges ==
    /\ subcommand = "challenges"
    /\ \E d \in Dojos, m \in Modules,
          page \in ChallengePages, c \in SetCookies :
            challenges(d, m, page, c)
    /\ MainCall("subcommand", IF ret'.kind = "raised" THEN "raised" ELSE "logout")
    /\ UNCHANGED mfail

\* cookies is the one subcommand without a logout.
MainCookies ==
    /\ subcommand = "cookies"
    /\ cookies
    /\ MainCall("subcommand", "done")
    /\ UNCHANGED mfail

MainLogout ==
    /\ \E r \in ApiResponses, c \in SetCookies : logout(r, c)
    /\ MainCall("logout", "done")
    /\ UNCHANGED mfail

NextMain ==
    \/ MainLogin
    \/ MainDocker
    \/ MainAttempt
    \/ MainStatus
    \/ MainDojos
    \/ MainModules
    \/ MainChallenges
    \/ MainCookies
    \/ MainLogout

SpecMain == InitMain /\ [][NextMain]_vars


\* ================================================================== claims
GetBase == <<"GET", "">>
PostLogin == <<"POST", "/login">>
ApiCalls == {"docker", "attempt", "status"}
ApiRequest(name) ==
    IF name = "docker" THEN <<"POST", "/pwncollege_api/v1/docker">>
    ELSE IF name = "attempt" THEN <<"POST", "/api/v1/challenges/attempt">>
    ELSE <<"GET", "/pwncollege_api/v1/docker">>

\* The nonce a base-URL response yields: its first non-empty value, or "".
NonceShown(facts) == IF facts.has_nonce THEN facts.nonce ELSE <<>>

\* C1: after login() on a client that was not logged in, logged_in is not
\* True when the userId in the POST /login response is 0.
C1_LoginOnlyOnNonZeroUserId ==
    (/\ call = "login"
     /\ ~pre.logged_in
     /\ seen[3].has_user_id
     /\ seen[3].user_id = 0)
    => ~logged_in

\* C2: nonce() sends one GET to the base URL and returns the value between
\* the quotes of the first  'csrfNonce': "..."  of the body, an occurrence
\* being one with a non-empty value, whenever the body holds one.
C2_NonceReturnsFirstValue ==
    (call = "nonce" /\ NonEmptyOccurrences(text) # {})
    => /\ Urls(sent) = <<GetBase>>
       /\ ret = [kind |-> "str", val |-> FirstNonEmptyValue(text)]

\* C2 happens: nonce() has returned the value of an occurrence that comes
\* after an occurrence with an empty value.
C2_Witness ==
    /\ call = "nonce"
    /\ NonEmptyOccurrences(text) # {}
    /\ NonceOccurrences(text) # NonEmptyOccurrences(text)
    /\ First(NonceOccurrences(text)) # First(NonEmptyOccurrences(text))
    /\ ret.val = FirstNonEmptyValue(text)

\* C3: when the base-URL response holds no nonce, nonce() returns the empty
\* string, and login, docker, attempt and status still send their own request,
\* with the empty string as nonce (login) or csrf-token (the others).
C3_EmptyNonceStillSent ==
    /\ (call = "nonce" /\ ~seen[1].has_nonce)
       => ret = [kind |-> "str", val |-> <<>>]
    /\ (call = "login" /\ ~seen[2].has_nonce)
       => /\ Len(sent) = 3
          /\ <<sent[3].method, sent[3].url>> = PostLogin
          /\ sent[3].data.kind = "form"
          /\ sent[3].data.nonce = <<>>
    /\ (call \in ApiCalls /\ ~seen[1].has_nonce)
       => /\ Len(sent) = 2
          /\ <<sent[2].method, sent[2].url>> = ApiRequest(call)
          /\ "csrf-token" \in DOMAIN sent[2].headers
          /\ sent[2].headers["csrf-token"] = <<>>

\* C3 happens: docker() has run on a base-URL response without a nonce.
C3_Witness ==
    /\ call = "docker"
    /\ ~seen[1].has_nonce
    /\ Len(sent) = 2
    /\ sent[2].headers["csrf-token"] = <<>>

\* C4: a login() whose POST /login response holds a userId other than 0 sets
\* logged_in to True and returns that response.
C4_LoginSucceeds ==
    (/\ call = "login"
     /\ seen[3].has_user_id
     /\ seen[3].user_id # 0)
    => /\ logged_in
       /\ ret.kind = "Response"
       /\ <<ret.method, ret.url>> = PostLogin
       /\ ret.facts = seen[3]

\* C4 happens: a freshly constructed client has logged in.
C4_Witness ==
    /\ call = "login"
    /\ pre.logged_in = FALSE
    /\ pre.jar = None
    /\ seen[3].has_user_id
    /\ seen[3].user_id # 0
    /\ logged_in
    /\ ret.kind = "Response"


\* C5: logout() on a client that is logged in sends exactly one request, GET
\* /logout, and leaves logged_in False whatever the response; so after any
\* logout() the client is not logged in.
C5_LogoutClearsLoggedIn ==
    /\ call = "logout" => ~logged_in
    /\ (call = "logout" /\ pre.logged_in)
       => /\ Urls(sent) = <<(<<"GET", "/logout">>)>>
          /\ ret.kind = "Response"

\* C5 happens: a logged-in client has logged out, and the response to GET
\* /logout was not even JSON.
C5_Witness ==
    /\ call = "logout"
    /\ pre.logged_in
    /\ ~logged_in
    /\ ret.kind = "Response"
    /\ ret.content = NotJson

\* C6: logout() on a client that is not logged in sends no request, returns
\* None and leaves logged_in, the session headers and the cookie jar as they
\* were.
C6_LogoutWhenLoggedOut ==
    (call = "logout" /\ ~pre.logged_in)
    => /\ sent = <<>>
       /\ ret.kind = "None"
       /\ logged_in = pre.logged_in
       /\ headers = pre.headers
       /\ jar = pre.jar

\* C6 happens: logout() has run on a client that is not logged in and holds
\* a session cookie.
C6_Witness ==
    /\ call = "logout"
    /\ ~pre.logged_in
    /\ pre.jar # None
    /\ sent = <<>>

\* C7: cookies() returns the value of the cookie named session in the jar
\* (None when there is none), logged in or not, sends no request and changes
\* no state.
C7_CookiesReturnsSessionCookie ==
    call = "cookies"
    => /\ IF pre.jar = None THEN ret.kind = "None"
          ELSE ret = [kind |-> "str", val |-> pre.jar]
       /\ sent = <<>>
       /\ logged_in = pre.logged_in
       /\ headers = pre.headers
       /\ jar = pre.jar

\* C7 happens: cookies() has returned the session cookie of a client that is
\* not logged in.
C7_Witness ==
    /\ call = "cookies"
    /\ ~logged_in
    /\ ret.kind = "str"
    /\ ret.val = "FAKE-SESSION-COOKIE"

\* The request a subcommand of main() is there to send.
SubcommandRequest(name) ==
    IF name \in ApiCalls THEN ApiRequest(name)
    ELSE IF name = "dojos" THEN <<"GET", "/dojos">>
    ELSE IF name = "modules" THEN <<"GET", "/{dojo}/">>
    ELSE <<"GET", "/{dojo}/{module}">>

\* C8: when its login fails main() does not abort: no exception leaves it,
\* and when it has ended it has sent the request of its subcommand.
C8_MainSurvivesFailedLogin ==
    mfail
    => /\ mpc # "raised"
       /\ (mpc = "done" /\ subcommand # "cookies")
          => \E i \in 1..Len(mlog) : mlog[i] = SubcommandRequest(subcommand)

C10_NonceRefreshedFirst ==
    /\ call = "login"
       => /\ Urls(sent) = <<(<<"GET", "/login">>), GetBase, PostLogin>>
          /\ sent[3].data.kind = "form"
          /\ sent[3].data.nonce = NonceShown(seen[2])
    /\ call \in ApiCalls
       => /\ Urls(sent) = <<GetBase, ApiRequest(call)>>
          /\ "csrf-token" \in DOMAIN sent[2].headers
          /\ sent[2].headers["csrf-token"] = NonceShown(seen[1])

\* C10 happens: status() has sent a csrf-token that its own base-URL response
\* held.
C10_Witness ==
    /\ call = "status"
    /\ Len(sent) = 2
    /\ seen[1].has_nonce
    /\ sent[2].headers["csrf-token"] = seen[1].nonce
    /\ sent[2].headers["csrf-token"] # <<>>


\* A request of login() or of a scraping method.
CarriesNoToken(requests) ==
    \A i \in 1..Len(requests) : "csrf-token" \notin DOMAIN requests[i].headers

\* C11: between calls the session headers hold no csrf-token and still hold
\* the User-Agent of __init__, so no request of login, dojos, modules or
\* challenges carries a csrf-token; also after an API request of docker,
\* attempt or status that raised.
C11_TokenOnlyDuringApiRequest ==
    /\ "csrf-token" \notin DOMAIN headers
    /\ "User-Agent" \in DOMAIN headers
    /\ headers["User-Agent"] = PWNCOLLEGE_CLI_USER_AGENT
    /\ call \in {"login", "dojos", "modules", "challenges"}
       => CarriesNoToken(sent)


\* The i-th record returned and the i-th anchor of the page: the parser
\* appends one record for each anchor until it stops.  A count the card holds
\* is the record's; a count the card lacks is not one an earlier card held.
DojoFromOwnCard(i) ==
    LET e == html[i]
        d == ret.val[i]
    IN /\ IF e.modules # <<>> THEN d.modules = e.modules[1]
          ELSE \A j \in 1..(i - 1) : html[j].modules # <<d.modules>>
       /\ IF e.challenges # <<>> THEN d.challenges = e.challenges[1]
          ELSE \A j \in 1..(i - 1) : html[j].challenges # <<d.challenges>>

ModuleFromOwnCard(i) ==
    LET e == html[i]
        d == ret.val[i]
    IN IF e.modules # <<>>
       THEN /\ d.solved_challenges = e.modules[1]
            /\ d.total_challenges = e.modules[2]
       ELSE \A j \in 1..(i - 1) :
               html[j].modules # <<d.solved_challenges, d.total_challenges>>

\* C12: _parse_dojos and _parse_modules return a list for every page of
\* matching anchors, also when a card lacks its numbers, and the counts of
\* each record returned are those of its own card, never those of an earlier
\* anchor.
C12_RecordsFromOwnCard ==
    /\ call = "_parse_dojos"
       => /\ ret.kind = "list"
          /\ \A i \in 1..Len(ret.val) : DojoFromOwnCard(i)
    /\ call = "_parse_modules"
       => /\ ret.kind = "list"
          /\ \A i \in 1..Len(ret.val) : ModuleFromOwnCard(i)

\* The two ways the parsers leave the claim, each on its own.
C12_ParserReturns ==
    call \in {"_parse_dojos", "_parse_modules"} => ret.kind = "list"

C12_NothingCarriedOver ==
    /\ (call = "_parse_dojos" /\ ret.kind = "list")
       => \A i \in 1..Len(ret.val) : DojoFromOwnCard(i)
    /\ (call = "_parse_modules" /\ ret.kind = "list")
       => \A i \in 1..Len(ret.val) : ModuleFromOwnCard(i)

====
